---- MODULE Spec2Model ----
(***************************************************************************)
(* Model of the document-analysis pipeline of backend/main.py:             *)
(*   analyze_document_with_ai  (prompt, two-attempt extraction, cleanup,   *)
(*                              json.loads)                                *)
(*   simulate_progress / analyze_document_stream.generate  (SSE stream)    *)
(*   analyze_document          (POST /api/analyze, persistence)            *)
(*   get_document / delete_document  (GET, DELETE /api/documents/{id})     *)
(*                                                                         *)
(* Texts are sequences of one-character strings.  A generation-service     *)
(* reply is such a sequence; the JSON decoder is modelled on a small JSON  *)
(* subset in which one symbol stands for one complete "key": value member. *)
(***************************************************************************)
EXTENDS Integers, Sequences, FiniteSets, TLC

VARIABLES
    kind,            \* per request: "none", "stream" (GET /api/analyze/stream), "analyze" (POST /api/analyze),
                     \*              "get", "delete" (GET, DELETE /api/documents/{document_id})
    pc,              \* per request: position in its handler
    user,            \* per request: current_user["_id"] (0 for the unauthenticated stream)
    events,          \* per request: the SSE frames yielded so far by generate()
    calls,           \* per request: the generation-service invocations made so far
    raw,             \* per request: chat_completion.choices[0].message.content
    outcome,         \* per request: how analyze_document_with_ai ended
    dbops,           \* per request: the persistence calls made so far
    response,        \* per request: the HTTP answer of the POST, GET or DELETE handler
    document_id,     \* per request: the document_id path parameter (0 where there is none)
    document_count,  \* db.users: document_count of each user
    documents,       \* db.documents
    payload,         \* normalizer study: the payload P
    cleaned,         \* normalizer study: the cleanup/parse results for P
    doc_text,        \* prompt study: the input text
    prompt           \* prompt study: the rendered prompt

vars == <<kind, pc, user, events, calls, raw, outcome, dbops, response, document_id,
          document_count, documents, payload, cleaned, doc_text, prompt>>

reqVars    == <<kind, pc, user, events, calls, raw, outcome, dbops, response, document_id>>
dbVars     == <<document_count, documents>>
normVars   == <<payload, cleaned>>
promptVars == <<doc_text, prompt>>

-----------------------------------------------------------------------------
(* Bounds *)

MaxReqs   == 1      \* requests in one behaviour
MaxUsers  == 2      \* registered users
MaxParts  == 4      \* pieces a payload is built from (normalizer study)
Margin    == 3      \* input lengths range over MAX_TEXT - Margin .. MAX_TEXT + Margin

Reqs  == 1..MaxReqs
Users == 1..MaxUsers

-----------------------------------------------------------------------------
(* Python string operations used by the cleanup, on character sequences *)

WS == " "

Min(a, b) == IF a < b THEN a ELSE b

\* s[n:]
DropFirst(s, n) == SubSeq(s, Min(n, Len(s)) + 1, Len(s))

\* s[:-n]
DropLast(s, n) == SubSeq(s, 1, IF Len(s) > n THEN Len(s) - n ELSE 0)

\* s[:n]
TakeFirst(s, n) == SubSeq(s, 1, Min(n, Len(s)))

\* s.startswith(p)
startswith(s, p) == Len(s) >= Len(p) /\ SubSeq(s, 1, Len(p)) = p

\* s.endswith(p)
endswith(s, p) == Len(s) >= Len(p) /\ SubSeq(s, Len(s) - Len(p) + 1, Len(s)) = p

RECURSIVE lstrip(_)
lstrip(s) == IF s # <<>> /\ Head(s) = WS THEN lstrip(Tail(s)) ELSE s

RECURSIVE rstrip(_)
rstrip(s) == IF s # <<>> /\ s[Len(s)] = WS THEN rstrip(SubSeq(s, 1, Len(s) - 1)) ELSE s

\* s.strip()
strip(s) == rstrip(lstrip(s))

\* The grave accent, the character of a markdown fence (the TLA+ lexer reserves
\* the character itself, so the model writes it "^").
BQ == "^"

\* The two markers of main.py 207-212
FenceJson == <<BQ, BQ, BQ, "j", "s", "o", "n">>
Fence     == <<BQ, BQ, BQ>>

\* A buggy cleanup: drops the length of the language tag for a bare fence too.
StripFences_Greedy(t) ==
    LET a == IF startswith(t, Fence) THEN DropFirst(t, 7) ELSE t
        b == IF endswith(a, Fence) THEN DropLast(a, 3) ELSE a
    IN  b

\* main.py 207-212: the three independent ifs
StripFences(t) ==
    LET a == IF startswith(t, FenceJson) THEN DropFirst(t, 7) ELSE t
        b == IF startswith(a, Fence) THEN DropFirst(a, 3) ELSE a
        c == IF endswith(b, Fence) THEN DropLast(b, 3) ELSE b
    IN  c

\* main.py 204-213: content.strip(), fence removal, strip()
CleanResponse(content) == strip(StripFences(strip(content)))

-----------------------------------------------------------------------------
(* json.loads on a JSON subset.                                            *)
(*   document ::= ws* value ws*                                            *)
(*   value    ::= "0"                        a JSON value that is no object*)
(*              | "{" (ws | member)* "}"                                   *)
(*   member   ::= "S"                        "simplified_summary": [...]   *)
(*              | "L" ws* "{" (ws | sub)* "}"  "legal_entities": {...}     *)
(*              | "L" ws* "0"                "legal_entities": null        *)
(*   sub      ::= "a" | ... | "g"            one of the seven sub-fields,  *)
(*                                           with a non-empty value        *)
(* Everything else is a JSONDecodeError, whose diagnostic is the position  *)
(* of the offending character.                                             *)

\* main.py 97-104: the fields of LegalEntity, in declaration order
SubFields == <<"survey_numbers", "ownership_details", "land_extents",
               "encumbrances", "risks", "missing_data", "notable_clauses">>

SubFieldSet == {SubFields[i] : i \in 1..Len(SubFields)}

\* The member symbol of each sub-field
FieldSym == <<"a", "b", "c", "d", "e", "f", "g">>

FieldSymSet == {FieldSym[i] : i \in 1..Len(FieldSym)}

FieldOf(c) == SubFields[CHOOSE i \in 1..Len(FieldSym) : FieldSym[i] = c]

\* The value held where no analysis result exists
NoValue == [kind |-> "none", summary |-> FALSE, entities |-> "absent", fields |-> {}]

DecodeStart == [mode |-> "start", pos |-> 0, kind |-> "none", summary |-> FALSE,
                entities |-> "absent", fields |-> {}]

DecodeStep(st, c, i) ==
    LET bad == [st EXCEPT !.mode = "fail", !.pos = i]
    IN  CASE st.mode = "start" ->
                 IF c = WS THEN st
                 ELSE IF c = "{" THEN [st EXCEPT !.mode = "top", !.kind = "object"]
                 ELSE IF c = "0" THEN [st EXCEPT !.mode = "end", !.kind = "scalar"]
                 ELSE bad
          [] st.mode = "top" ->
                 IF c = WS THEN st
                 ELSE IF c = "S" THEN [st EXCEPT !.summary = TRUE]
                 ELSE IF c = "L" THEN [st EXCEPT !.mode = "key"]
                 ELSE IF c = "}" THEN [st EXCEPT !.mode = "end"]
                 ELSE bad
          [] st.mode = "key" ->
                 IF c = WS THEN st
                 ELSE IF c = "{" THEN [st EXCEPT !.mode = "sub", !.entities = "object",
                                                 !.fields = {}]
                 ELSE IF c = "0" THEN [st EXCEPT !.mode = "top", !.entities = "scalar",
                                                 !.fields = {}]
                 ELSE bad
          [] st.mode = "sub" ->
                 IF c = WS THEN st
                 ELSE IF c \in FieldSymSet
                      THEN [st EXCEPT !.fields = st.fields \cup {FieldOf(c)}]
                 ELSE IF c = "}" THEN [st EXCEPT !.mode = "top"]
                 ELSE bad
          [] st.mode = "end" ->
                 IF c = WS THEN st ELSE bad
          [] OTHER -> bad

RECURSIVE Decode(_, _, _)
Decode(t, i, st) ==
    IF st.mode = "fail" THEN st
    ELSE IF i > Len(t)
         THEN IF st.mode = "end" THEN st ELSE [st EXCEPT !.mode = "fail", !.pos = i]
         ELSE Decode(t, i + 1, DecodeStep(st, t[i], i))

\* A decoder that answers an empty object instead of raising.
json_loads_Lenient(t) ==
    LET st == Decode(t, 1, DecodeStart)
    IN  IF st.mode = "end"
        THEN [ok |-> TRUE, diag |-> 0,
              value |-> [kind |-> st.kind, summary |-> st.summary,
                         entities |-> st.entities, fields |-> st.fields]]
        ELSE [ok |-> TRUE, diag |-> 0,
              value |-> [kind |-> "object", summary |-> FALSE,
                         entities |-> "absent", fields |-> {}]]

\* json.loads(t): ok with the decoded value, or not ok with the diagnostic
json_loads(t) ==
    LET st == Decode(t, 1, DecodeStart)
    IN  IF st.mode = "end"
        THEN [ok |-> TRUE, diag |-> 0,
              value |-> [kind |-> st.kind, summary |-> st.summary,
                         entities |-> st.entities, fields |-> st.fields]]
        ELSE [ok |-> FALSE, diag |-> st.pos, value |-> NoValue]

-----------------------------------------------------------------------------
(* The generation service *)

\* message.content of a reply that carries no text (content is None)
NoneContent == <<"None">>

\* raw before any reply has arrived
NoReply == <<"pending">>

\* An invocation that raises (transport error, mode unsupported, ...)
ServiceError == <<"APIError">>

\* A JSON object text with the given members
ObjectText(summary, entities, fs) ==
    LET sub[i \in 0..Len(FieldSym)] ==
            IF i = 0 THEN <<>>
            ELSE IF SubFields[i] \in fs THEN sub[i - 1] \o <<FieldSym[i]>> ELSE sub[i - 1]
    IN  <<"{">> \o (IF summary THEN <<"S">> ELSE <<>>)
              \o (CASE entities = "object" -> <<"L", "{">> \o sub[Len(FieldSym)] \o <<"}">>
                    [] entities = "scalar" -> <<"L", "0">>
                    [] OTHER -> <<>>)
              \o <<"}">>

WrapJson(p) == FenceJson \o p \o Fence
WrapBare(p) == Fence \o p \o Fence

\* The texts the generation service may answer with: a complete object in a
\* padded json fence, partial objects (one of them in a bare fence), an object
\* whose legal_entities is null, a value that is no object, and two texts
\* that are no JSON.
ReplyTexts ==
    { <<WS>> \o WrapJson(<<WS>> \o ObjectText(TRUE, "object", SubFieldSet) \o <<WS>>),
      ObjectText(TRUE, "object", SubFieldSet),
      ObjectText(TRUE, "object", {"survey_numbers"}),
      ObjectText(TRUE, "absent", {}),
      WrapBare(ObjectText(FALSE, "absent", {})),
      ObjectText(TRUE, "scalar", {}),
      <<"0">>,
      <<"n", "o">>,
      WrapJson(<<"{", "S">>) }

\* What one invocation of chat.completions.create can do
GroqOutcomes == ReplyTexts \cup {NoneContent, ServiceError}

\* The second invocation's behaviour matters only where the first one raised
SecondOutcomes(o1) == IF o1 = ServiceError THEN GroqOutcomes ELSE {ServiceError}

-----------------------------------------------------------------------------
(* analyze_document_with_ai *)

NoError == [status_code |-> 0, detail |-> "", cause |-> "", diag |-> 0]

HTTPException(code, detail, cause, diag) ==
    [status_code |-> code, detail |-> detail, cause |-> cause, diag |-> diag]

NotAnalysed == [status |-> "none", value |-> NoValue, error |-> NoError]

Returned(v) == [status |-> "ok", value |-> v, error |-> NoError]

Raised(e) == [status |-> "fail", value |-> NoValue, error |-> e]

\* main.py 216-217
ParseFailure(diag) ==
    HTTPException(500, "Failed to parse AI response as JSON", "JSONDecodeError", diag)

\* main.py 218-219
AnalysisFailure(cause) == HTTPException(500, "AI analysis failed", cause, 0)

\* A normalizer that substitutes an empty result for unparseable text.
ParseReply_Silent(content) ==
    IF content = NoneContent
    THEN Raised(AnalysisFailure("AttributeError"))
    ELSE Returned(json_loads_Lenient(CleanResponse(content)).value)

\* main.py 204-219: from the reply to the function's result
ParseReply(content) ==
    IF content = NoneContent
    THEN Raised(AnalysisFailure("AttributeError"))
    ELSE LET p == json_loads(CleanResponse(content))
         IN  IF p.ok THEN Returned(p.value) ELSE Raised(ParseFailure(p.diag))

Call(mode, ok) == [mode |-> mode, ok |-> ok]

Analysis(cs, content, o) == [calls |-> cs, raw |-> content, outcome |-> o]

\* An extraction that invokes the service once more when the fallback fails.
analyze_document_with_ai_Retry(o1, o2) ==
    IF o1 # ServiceError
    THEN Analysis(<<Call("json_object", TRUE)>>, o1, ParseReply(o1))
    ELSE IF o2 # ServiceError
    THEN Analysis(<<Call("json_object", FALSE), Call("plain", TRUE)>>, o2, ParseReply(o2))
    ELSE Analysis(<<Call("json_object", FALSE), Call("plain", FALSE), Call("plain", FALSE)>>,
                  NoReply, Raised(AnalysisFailure("APIError")))

\* An extraction whose fallback result still reports the first failure.
analyze_document_with_ai_Surfacing(o1, o2) ==
    IF o1 # ServiceError
    THEN Analysis(<<Call("json_object", TRUE)>>, o1, ParseReply(o1))
    ELSE IF o2 # ServiceError
    THEN Analysis(<<Call("json_object", FALSE), Call("plain", TRUE)>>, o2,
                  Raised(AnalysisFailure("APIError")))
    ELSE Analysis(<<Call("json_object", FALSE), Call("plain", FALSE)>>, NoReply,
                  Raised(AnalysisFailure("APIError")))

\* main.py 165-219.  o1 is what the structured-output invocation (172-186)
\* does, o2 what the plain invocation (189-202) does if it is made.  The
\* function contains no await: it runs as one step of the event loop.
analyze_document_with_ai(o1, o2) ==
    IF o1 # ServiceError
    THEN Analysis(<<Call("json_object", TRUE)>>, o1, ParseReply(o1))
    ELSE IF o2 # ServiceError
    THEN Analysis(<<Call("json_object", FALSE), Call("plain", TRUE)>>, o2, ParseReply(o2))
    ELSE Analysis(<<Call("json_object", FALSE), Call("plain", FALSE)>>, NoReply,
                  Raised(AnalysisFailure("APIError")))

-----------------------------------------------------------------------------
(* simulate_progress and analyze_document_stream.generate *)

Progress(step, message, progress) ==
    [step |-> step, message |-> message, progress |-> progress]

\* A step list that lost its last entry.
progress_steps_Short ==
    << Progress("reading", "Reading document...", 10),
       Progress("extracting", "Extracting legal entities...", 25),
       Progress("analyzing", "Analyzing ownership details...", 40),
       Progress("identifying", "Identifying survey numbers...", 55),
       Progress("checking", "Checking for encumbrances...", 70),
       Progress("assessing", "Assessing potential risks...", 85) >>

\* main.py 223-231
progress_steps ==
    << Progress("reading", "Reading document...", 10),
       Progress("extracting", "Extracting legal entities...", 25),
       Progress("analyzing", "Analyzing ownership details...", 40),
       Progress("identifying", "Identifying survey numbers...", 55),
       Progress("checking", "Checking for encumbrances...", 70),
       Progress("assessing", "Assessing potential risks...", 85),
       Progress("generating", "Generating simplified summary...", 95) >>

\* A generator that reports every outcome as complete.
TerminalEvent_AlwaysComplete(o) == [step |-> "complete", result |-> o.value]

\* main.py 294-298: the frame after the analysis; str(e) is the exception's
\* status code and detail
TerminalEvent(o) ==
    IF o.status = "ok"
    THEN [step |-> "complete", result |-> o.value]
    ELSE [step |-> "error", message |-> o.error]

\* main.py 287-300: GET /api/analyze/stream is called; generate() starts
StartStream(r) ==
    /\ pc[r] = "idle"
    /\ kind' = [kind EXCEPT ![r] = "stream"]
    /\ pc' = [pc EXCEPT ![r] = "progress"]
    /\ UNCHANGED <<user, events, calls, raw, outcome, dbops, response>>
    /\ UNCHANGED <<document_id, dbVars, normVars, promptVars>>

\* main.py 233-235 and 291-292: one synthetic frame, then the 0.3 s sleep
EmitProgress(r) ==
    /\ pc[r] = "progress"
    /\ Len(events[r]) < Len(progress_steps)
    /\ events' = [events EXCEPT ![r] = Append(@, progress_steps[Len(@) + 1])]
    /\ UNCHANGED <<kind, pc, user, calls, raw, outcome, dbops, response>>
    /\ UNCHANGED <<document_id, dbVars, normVars, promptVars>>

\* A generator that runs the analysis while progress frames are still due.
StreamAnalysis_Early(r) ==
    /\ pc[r] = "progress"
    /\ Len(events[r]) < Len(progress_steps)
    /\ \E o1 \in GroqOutcomes : \E o2 \in SecondOutcomes(o1) :
          LET a == analyze_document_with_ai(o1, o2)
          IN  /\ calls' = [calls EXCEPT ![r] = a.calls]
              /\ raw' = [raw EXCEPT ![r] = a.raw]
              /\ outcome' = [outcome EXCEPT ![r] = a.outcome]
              /\ events' = events
    /\ pc' = pc
    /\ UNCHANGED <<kind, user, dbops, response>>
    /\ UNCHANGED <<document_id, dbVars, normVars, promptVars>>

\* main.py 293-298: the progress loop is exhausted; the analysis runs and its
\* terminal frame is yielded; generate() returns
StreamAnalysis(r) ==
    /\ pc[r] = "progress"
    /\ Len(events[r]) = Len(progress_steps)
    /\ \E o1 \in GroqOutcomes : \E o2 \in SecondOutcomes(o1) :
          LET a == analyze_document_with_ai(o1, o2)
          IN  /\ calls' = [calls EXCEPT ![r] = a.calls]
              /\ raw' = [raw EXCEPT ![r] = a.raw]
              /\ outcome' = [outcome EXCEPT ![r] = a.outcome]
              /\ events' = [events EXCEPT ![r] = Append(@, TerminalEvent(a.outcome))]
    /\ pc' = [pc EXCEPT ![r] = "done"]
    /\ UNCHANGED <<kind, user, dbops, response>>
    /\ UNCHANGED <<document_id, dbVars, normVars, promptVars>>

-----------------------------------------------------------------------------
(* analyze_document: POST /api/analyze *)

NoResponse == [status |-> 0, detail |-> "", error |-> NoError, body |-> NoValue,
               document_id |-> 0]

\* main.py 284-285
ProcessingFailed(e) ==
    [status |-> 500, detail |-> "Document processing failed", error |-> e,
     body |-> NoValue, document_id |-> 0]

\* main.py 272-280: analysis_result.get("simplified_summary", []) and the seven
\* legal_entities.get(field, default): every key is present in what comes out
Backfilled(v) ==
    [kind |-> "object", summary |-> TRUE, entities |-> "object",
     fields |-> v.fields \cup {f \in SubFieldSet : f \notin v.fields}]

\* main.py 270-283
DocumentResponse(id, v) ==
    [status |-> 200, detail |-> "", error |-> NoError, body |-> Backfilled(v),
     document_id |-> id]

\* main.py 248-256: the stored record; only the two top-level keys are defaulted
document_record(r, u, v) ==
    [id |-> r, user_id |-> u, analysis_result |-> v,
     simplified_summary |-> IF v.summary THEN "value" ELSE "empty",
     legal_entities |-> IF v.entities = "absent"
                        THEN [entities |-> "object", fields |-> {}]
                        ELSE [entities |-> v.entities, fields |-> v.fields]]

DbCall(op, ok) == [op |-> op, ok |-> ok]

Proceed == [raised |-> FALSE, error |-> NoError]

Raise(e) == [raised |-> TRUE, error |-> e]

\* A handler that goes on to store whatever the analysis left behind.
BuildRecord_Unchecked(o) == Proceed

\* main.py 245-256 under the try of 243: a failed analysis raises, and so
\* does .get on a decoded value that is no object (AttributeError)
BuildRecord(o) ==
    IF o.status = "fail" THEN Raise(o.error)
    ELSE IF o.value.kind # "object" THEN Raise(HTTPException(0, "", "AttributeError", 0))
    ELSE Proceed

\* main.py 237-256 and 284-285: the handler is called by an authenticated
\* user, runs the analysis and builds the record, up to its first await
AnalyzeRequest(r) ==
    /\ pc[r] = "idle"
    /\ kind' = [kind EXCEPT ![r] = "analyze"]
    /\ \E u \in Users : user' = [user EXCEPT ![r] = u]
    /\ \E o1 \in GroqOutcomes : \E o2 \in SecondOutcomes(o1) :
          LET a == analyze_document_with_ai(o1, o2)
              b == BuildRecord(a.outcome)
          IN  /\ calls' = [calls EXCEPT ![r] = a.calls]
              /\ raw' = [raw EXCEPT ![r] = a.raw]
              /\ outcome' = [outcome EXCEPT ![r] = a.outcome]
              /\ IF b.raised
                 THEN /\ response' = [response EXCEPT ![r] = ProcessingFailed(b.error)]
                      /\ pc' = [pc EXCEPT ![r] = "done"]
                 ELSE /\ response' = response
                      /\ pc' = [pc EXCEPT ![r] = "update_count"]
    /\ UNCHANGED <<events, dbops>>
    /\ UNCHANGED <<document_id, dbVars, normVars, promptVars>>

\* main.py 259-262: $inc document_count, or the driver raises
UpdateCount(r) ==
    /\ pc[r] = "update_count"
    /\ \/ /\ document_count' = [document_count EXCEPT ![user[r]] = @ + 1]
          /\ dbops' = [dbops EXCEPT ![r] = Append(@, DbCall("users.update_one", TRUE))]
          /\ pc' = [pc EXCEPT ![r] = "insert"]
          /\ response' = response
       \/ /\ document_count' = document_count
          /\ dbops' = [dbops EXCEPT ![r] = Append(@, DbCall("users.update_one", FALSE))]
          /\ pc' = [pc EXCEPT ![r] = "done"]
          /\ response' = [response EXCEPT ![r] =
                 ProcessingFailed(HTTPException(0, "", "PyMongoError", 0))]
    /\ UNCHANGED <<kind, user, events, calls, raw, outcome, documents>>
    /\ UNCHANGED <<document_id, normVars, promptVars>>

\* main.py 264-265: insert_one, or the driver raises
InsertDocument(r) ==
    /\ pc[r] = "insert"
    /\ \/ /\ documents' = documents \cup {document_record(r, user[r], outcome[r].value)}
          /\ dbops' = [dbops EXCEPT ![r] = Append(@, DbCall("documents.insert_one", TRUE))]
          /\ pc' = [pc EXCEPT ![r] = "respond"]
          /\ response' = response
       \/ /\ documents' = documents
          /\ dbops' = [dbops EXCEPT ![r] = Append(@, DbCall("documents.insert_one", FALSE))]
          /\ pc' = [pc EXCEPT ![r] = "done"]
          /\ response' = [response EXCEPT ![r] =
                 ProcessingFailed(HTTPException(0, "", "PyMongoError", 0))]
    /\ UNCHANGED <<kind, user, events, calls, raw, outcome, document_count>>
    /\ UNCHANGED <<document_id, normVars, promptVars>>

\* main.py 268-283: the response is built; legal_entities.get on null raises
Respond(r) ==
    /\ pc[r] = "respond"
    /\ response' = [response EXCEPT ![r] =
           IF outcome[r].value.entities = "scalar"
           THEN ProcessingFailed(HTTPException(0, "", "AttributeError", 0))
           ELSE DocumentResponse(r, outcome[r].value)]
    /\ pc' = [pc EXCEPT ![r] = "done"]
    /\ UNCHANGED <<kind, user, events, calls, raw, outcome, dbops>>
    /\ UNCHANGED <<document_id, dbVars, normVars, promptVars>>

-----------------------------------------------------------------------------
(* GET and DELETE /api/documents/{document_id}: main.py 302-343 *)

\* The least registered user
FirstUser == CHOOSE u \in Users : \A v \in Users : u <= v

\* Ids a caller can put in the path: the ids of records the requests of this
\* model insert, the id of a record stored earlier, a well-formed id of no
\* record, and a string that is no ObjectId
StoredId == MaxReqs + 1

MissingId == MaxReqs + 2

MalformedId == MaxReqs + 3

DocumentIds == Reqs \cup {StoredId, MissingId, MalformedId}

\* main.py 248-265: the record an earlier, successful analysis of FirstUser
\* left in db.documents
StoredDocument ==
    document_record(StoredId, FirstUser,
        [kind |-> "object", summary |-> TRUE, entities |-> "object",
         fields |-> SubFieldSet])

\* A find_one or delete_one as the database saw it: matched tells whether the
\* filter {_id, user_id} selected a record
DbQuery(op, ok, matched) == [op |-> op, ok |-> ok, matched |-> matched]

\* main.py 310-311 and 332-333
NotFound == HTTPException(404, "Document not found", "HTTPException", 0)

\* main.py 318-319: except Exception around the whole body, the 404 included
RetrieveFailed(e) ==
    [status |-> 500, detail |-> "Failed to retrieve document", error |-> e,
     body |-> NoValue, document_id |-> 0]

\* main.py 342-343
DeleteFailed(e) ==
    [status |-> 500, detail |-> "Failed to delete document", error |-> e,
     body |-> NoValue, document_id |-> 0]

\* main.py 313-316: the record, its _id as a string
Retrieved(d) ==
    [status |-> 200, detail |-> "", error |-> NoError, body |-> d.analysis_result,
     document_id |-> d.id]

\* main.py 341
Deleted ==
    [status |-> 200, detail |-> "Document deleted successfully", error |-> NoError,
     body |-> NoValue, document_id |-> 0]

\* main.py 305-308 and 328-330: the filter of find_one and delete_one
Matching(id, u) == {d \in documents : d.id = id /\ d.user_id = u}

\* main.py 302-307: an authenticated user asks for a document; ObjectId(document_id)
\* raises InvalidId on a malformed id before the query is sent
GetDocument(r) ==
    /\ pc[r] = "idle"
    /\ kind' = [kind EXCEPT ![r] = "get"]
    /\ \E u \in Users : user' = [user EXCEPT ![r] = u]
    /\ \E id \in DocumentIds :
          /\ document_id' = [document_id EXCEPT ![r] = id]
          /\ IF id = MalformedId
             THEN /\ response' = [response EXCEPT ![r] =
                         RetrieveFailed(HTTPException(0, "", "InvalidId", 0))]
                  /\ pc' = [pc EXCEPT ![r] = "done"]
             ELSE /\ response' = response
                  /\ pc' = [pc EXCEPT ![r] = "find_one"]
    /\ UNCHANGED <<events, calls, raw, outcome, dbops>>
    /\ UNCHANGED <<dbVars, normVars, promptVars>>

\* main.py 305-319: find_one answers or the driver raises; the 404 raised at
\* 311 is caught at 318 and answered as a 500
FindOne(r) ==
    /\ pc[r] = "find_one"
    /\ \/ /\ dbops' = [dbops EXCEPT ![r] =
                 Append(@, DbQuery("documents.find_one", FALSE, FALSE))]
          /\ response' = [response EXCEPT ![r] =
                 RetrieveFailed(HTTPException(0, "", "PyMongoError", 0))]
       \/ LET hit == Matching(document_id[r], user[r])
          IN  /\ dbops' = [dbops EXCEPT ![r] =
                     Append(@, DbQuery("documents.find_one", TRUE, hit # {}))]
              /\ response' = [response EXCEPT ![r] =
                     IF hit = {} THEN RetrieveFailed(NotFound)
                     ELSE Retrieved(CHOOSE d \in hit : TRUE)]
    /\ pc' = [pc EXCEPT ![r] = "done"]
    /\ UNCHANGED <<kind, user, events, calls, raw, outcome, document_id>>
    /\ UNCHANGED <<dbVars, normVars, promptVars>>

\* main.py 321-330: as GetDocument, for DELETE
DeleteDocument(r) ==
    /\ pc[r] = "idle"
    /\ kind' = [kind EXCEPT ![r] = "delete"]
    /\ \E u \in Users : user' = [user EXCEPT ![r] = u]
    /\ \E id \in DocumentIds :
          /\ document_id' = [document_id EXCEPT ![r] = id]
          /\ IF id = MalformedId
             THEN /\ response' = [response EXCEPT ![r] =
                         DeleteFailed(HTTPException(0, "", "InvalidId", 0))]
                  /\ pc' = [pc EXCEPT ![r] = "done"]
             ELSE /\ response' = response
                  /\ pc' = [pc EXCEPT ![r] = "delete_one"]
    /\ UNCHANGED <<events, calls, raw, outcome, dbops>>
    /\ UNCHANGED <<dbVars, normVars, promptVars>>

\* main.py 327-333 and 342-343: delete_one removes the matching record, finds
\* none (deleted_count 0, the 404 is caught and answered as a 500), or raises
DeleteOne(r) ==
    /\ pc[r] = "delete_one"
    /\ \/ /\ dbops' = [dbops EXCEPT ![r] =
                 Append(@, DbQuery("documents.delete_one", FALSE, FALSE))]
          /\ documents' = documents
          /\ response' = [response EXCEPT ![r] =
                 DeleteFailed(HTTPException(0, "", "PyMongoError", 0))]
          /\ pc' = [pc EXCEPT ![r] = "done"]
       \/ LET hit == Matching(document_id[r], user[r])
          IN  /\ dbops' = [dbops EXCEPT ![r] =
                     Append(@, DbQuery("documents.delete_one", TRUE, hit # {}))]
              /\ documents' = documents \ hit
              /\ IF hit = {}
                 THEN /\ response' = [response EXCEPT ![r] = DeleteFailed(NotFound)]
                      /\ pc' = [pc EXCEPT ![r] = "done"]
                 ELSE /\ response' = response
                      /\ pc' = [pc EXCEPT ![r] = "decrement"]
    /\ UNCHANGED <<kind, user, events, calls, raw, outcome, document_id, document_count>>
    /\ UNCHANGED <<normVars, promptVars>>

\* main.py 335-343: $inc document_count by -1, or the driver raises
DecrementCount(r) ==
    /\ pc[r] = "decrement"
    /\ \/ /\ document_count' = [document_count EXCEPT ![user[r]] = @ - 1]
          /\ dbops' = [dbops EXCEPT ![r] = Append(@, DbCall("users.update_one", TRUE))]
          /\ response' = [response EXCEPT ![r] = Deleted]
       \/ /\ document_count' = document_count
          /\ dbops' = [dbops EXCEPT ![r] = Append(@, DbCall("users.update_one", FALSE))]
          /\ response' = [response EXCEPT ![r] =
                 DeleteFailed(HTTPException(0, "", "PyMongoError", 0))]
    /\ pc' = [pc EXCEPT ![r] = "done"]
    /\ UNCHANGED <<kind, user, events, calls, raw, outcome, document_id, documents>>
    /\ UNCHANGED <<normVars, promptVars>>

-----------------------------------------------------------------------------
(* The service: handlers of several requests in progress *)

\* No request has arrived; main.py 355-365: registered users start with
\* document_count 0 and no documents, and main.py 259-265: an earlier analysis
\* of FirstUser may have stored a record and counted it
Init ==
    /\ kind = [r \in Reqs |-> "none"]
    /\ pc = [r \in Reqs |-> "idle"]
    /\ user = [r \in Reqs |-> 0]
    /\ events = [r \in Reqs |-> <<>>]
    /\ calls = [r \in Reqs |-> <<>>]
    /\ raw = [r \in Reqs |-> NoReply]
    /\ outcome = [r \in Reqs |-> NotAnalysed]
    /\ dbops = [r \in Reqs |-> <<>>]
    /\ response = [r \in Reqs |-> NoResponse]
    /\ document_id = [r \in Reqs |-> 0]
    /\ documents \in {{}, {StoredDocument}}
    /\ document_count = [u \in Users |-> Cardinality({d \in documents : d.user_id = u})]
    /\ payload = <<>>
    /\ cleaned = <<>>
    /\ doc_text = <<>>
    /\ prompt = <<>>

Next ==
    \E r \in Reqs :
        \/ StartStream(r)
        \/ EmitProgress(r)
        \/ StreamAnalysis(r)
        \/ AnalyzeRequest(r)
        \/ UpdateCount(r)
        \/ InsertDocument(r)
        \/ Respond(r)
        \/ GetDocument(r)
        \/ FindOne(r)
        \/ DeleteDocument(r)
        \/ DeleteOne(r)
        \/ DecrementCount(r)

Spec == Init /\ [][Next]_vars

-----------------------------------------------------------------------------
(* Normalizer study: the cleanup of main.py 204-215 applied to a payload P, *)
(* unwrapped and wrapped in each of the two fences                          *)

\* The pieces payloads are built from
Parts == { <<BQ>>, Fence, <<"j", "s", "o", "n">>, <<WS>>, <<"{">>, <<"}">>, <<"S">> }

RECURSIVE PayloadsOf(_)
PayloadsOf(n) ==
    IF n = 0 THEN {<<>>}
    ELSE LET shorter == PayloadsOf(n - 1)
         IN  shorter \cup {p \o q : p \in shorter, q \in Parts}

Payloads == PayloadsOf(MaxParts)

NotRun == [text |-> <<"not run">>, result |-> NotAnalysed]

\* main.py 204-219 on one reply: the cleaned text and the function's result
Normalized(content) == [text |-> CleanResponse(content), result |-> ParseReply(content)]

InitNormStudy ==
    /\ kind = [r \in Reqs |-> "none"]
    /\ pc = [r \in Reqs |-> "idle"]
    /\ user = [r \in Reqs |-> 0]
    /\ events = [r \in Reqs |-> <<>>]
    /\ calls = [r \in Reqs |-> <<>>]
    /\ raw = [r \in Reqs |-> NoReply]
    /\ outcome = [r \in Reqs |-> NotAnalysed]
    /\ dbops = [r \in Reqs |-> <<>>]
    /\ response = [r \in Reqs |-> NoResponse]
    /\ document_id = [r \in Reqs |-> 0]
    /\ document_count = [u \in Users |-> 0]
    /\ documents = {}
    /\ doc_text = <<>>
    /\ prompt = <<>>
    /\ payload \in Payloads
    /\ cleaned = [plain |-> NotRun, json |-> NotRun, bare |-> NotRun]

NormalizePlain ==
    /\ cleaned.plain = NotRun
    /\ cleaned' = [cleaned EXCEPT !.plain = Normalized(payload)]
    /\ UNCHANGED <<payload, reqVars, dbVars, promptVars>>

NormalizeJsonFenced ==
    /\ cleaned.json = NotRun
    /\ cleaned' = [cleaned EXCEPT !.json = Normalized(WrapJson(payload))]
    /\ UNCHANGED <<payload, reqVars, dbVars, promptVars>>

NormalizeBareFenced ==
    /\ cleaned.bare = NotRun
    /\ cleaned' = [cleaned EXCEPT !.bare = Normalized(WrapBare(payload))]
    /\ UNCHANGED <<payload, reqVars, dbVars, promptVars>>

NextNorm == NormalizePlain \/ NormalizeJsonFenced \/ NormalizeBareFenced

SpecNorm == InitNormStudy /\ [][NextNorm]_vars

-----------------------------------------------------------------------------
(* Prompt study: ANALYSIS_PROMPT.format(text=text[:8000]) of main.py 168 *)

MAX_TEXT == 8000

\* main.py 113-155: the template up to the {text} field
TemplateHead == <<"You are a legal document analysis AI ...", "Document text to analyze:", "\n">>

\* main.py 157-163: the template after the {text} field
TemplateTail == <<"\n", "\n", "IMPORTANT: ...">>

\* A prompt builder whose slice is one character too long.
BuildPrompt_OffByOne(text) == TemplateHead \o TakeFirst(text, MAX_TEXT + 1) \o TemplateTail

\* main.py 168
BuildPrompt(text) == TemplateHead \o TakeFirst(text, MAX_TEXT) \o TemplateTail

\* Input texts: short ones, and ones whose length is within Margin of the limit
TailsUpTo(n) == UNION {[1..k -> {"a", "b"}] : k \in 0..n}

Filler == [i \in 1..(MAX_TEXT - Margin) |-> "x"]

PromptTexts == TailsUpTo(2) \cup {Filler \o t : t \in TailsUpTo(2 * Margin)}

Unrendered == <<>>

InitPromptStudy ==
    /\ kind = [r \in Reqs |-> "none"]
    /\ pc = [r \in Reqs |-> "idle"]
    /\ user = [r \in Reqs |-> 0]
    /\ events = [r \in Reqs |-> <<>>]
    /\ calls = [r \in Reqs |-> <<>>]
    /\ raw = [r \in Reqs |-> NoReply]
    /\ outcome = [r \in Reqs |-> NotAnalysed]
    /\ dbops = [r \in Reqs |-> <<>>]
    /\ response = [r \in Reqs |-> NoResponse]
    /\ document_id = [r \in Reqs |-> 0]
    /\ document_count = [u \in Users |-> 0]
    /\ documents = {}
    /\ payload = <<>>
    /\ cleaned = <<>>
    /\ doc_text \in PromptTexts
    /\ prompt = Unrendered

RenderPrompt ==
    /\ prompt = Unrendered
    /\ prompt' = BuildPrompt(doc_text)
    /\ UNCHANGED <<doc_text, reqVars, dbVars, normVars>>

NextPrompt == RenderPrompt

SpecPrompt == InitPromptStudy /\ [][NextPrompt]_vars

-----------------------------------------------------------------------------
(* Properties *)

IsText(content) == content \notin {NoReply, NoneContent, ServiceError}

Streams  == {r \in Reqs : kind[r] = "stream"}
Analyzes == {r \in Reqs : kind[r] = "analyze"}

TerminalSteps == {"complete", "error"}

\* The positions of the terminal frames of a stream
Terminals(r) == {i \in 1..Len(events[r]) : events[r][i].step \in TerminalSteps}

\* The order and percentages of section 4.5
SyntheticSteps ==
    << <<"reading", 10>>, <<"extracting", 25>>, <<"analyzing", 40>>,
       <<"identifying", 55>>, <<"checking", 70>>, <<"assessing", 85>>,
       <<"generating", 95>> >>

IsSynthetic(e, i) ==
    /\ e.step = SyntheticSteps[i][1]
    /\ e.progress = SyntheticSteps[i][2]

\* C1: a stream's frames are, in order, the seven synthetic events
\* reading(10) ... generating(95) and then one terminal frame (complete or
\* error) in eighth place; a finished stream has all eight, and nothing
\* follows the terminal frame, whether the analysis succeeded or failed.
C1_StreamShape ==
    \A r \in Streams :
        /\ Len(events[r]) <= Len(SyntheticSteps) + 1
        /\ \A i \in 1..Len(events[r]) :
              IF i <= Len(SyntheticSteps)
              THEN IsSynthetic(events[r][i], i)
              ELSE events[r][i].step \in TerminalSteps
        /\ pc[r] = "done" => Len(events[r]) = Len(SyntheticSteps) + 1

C1_Witness ==
    \E r \in Streams :
        /\ pc[r] = "done"
        /\ outcome[r].status = "fail"
        /\ Len(events[r]) = 8
        /\ events[r][8].step = "error"

\* C2: a stream never carries more than one terminal frame and a finished
\* stream carries exactly one; it is complete, with the analysis result, iff
\* analyze_document_with_ai returned, and error, with the exception's
\* message, iff it raised.
C2_TerminalMatchesOutcome ==
    \A r \in Streams :
        /\ Cardinality(Terminals(r)) <= 1
        /\ pc[r] = "done" => Cardinality(Terminals(r)) = 1
        /\ \A i \in Terminals(r) :
              LET e == events[r][i]
              IN  /\ e.step = "complete" <=> outcome[r].status = "ok"
                  /\ e.step = "error" <=> outcome[r].status = "fail"
                  /\ e.step = "complete" => e.result = outcome[r].value
                  /\ e.step = "error" =>
                        /\ e.message = outcome[r].error
                        /\ e.message # NoError

C2_Witness ==
    \E r \in Streams :
        /\ pc[r] = "done"
        /\ outcome[r].status = "ok"
        /\ events[r][Len(events[r])] = [step |-> "complete", result |-> outcome[r].value]

\* An analysis result with the summary and all seven legal-entity sub-fields
Complete(v) ==
    /\ v.kind = "object"
    /\ v.summary
    /\ v.entities = "object"
    /\ v.fields = SubFieldSet

\* C3: every analysis result handed on after a successful analysis (the
\* function's return value, the result of a complete frame, the stored
\* document record, the POST response) has the summary and all seven
\* legal-entity sub-fields.
C3_ResultsAreComplete ==
    /\ \A r \in Reqs :
          /\ outcome[r].status = "ok" => Complete(outcome[r].value)
          /\ \A i \in Terminals(r) :
                events[r][i].step = "complete" => Complete(events[r][i].result)
          /\ response[r].status = 200 => Complete(response[r].body)
    /\ \A d \in documents :
          /\ Complete(d.analysis_result)
          /\ d.legal_entities.entities = "object"
          /\ d.legal_entities.fields = SubFieldSet

\* C4: a reply text that is no JSON after trimming and fence stripping makes
\* the analysis raise the parse failure with the decoder's diagnostic; no
\* value is returned, the stream ends in an error frame and the POST answers
\* 500 without storing anything.
C4_UnparseableFails ==
    \A r \in Reqs :
        (IsText(raw[r]) /\ ~json_loads(CleanResponse(raw[r])).ok) =>
            /\ outcome[r] = [status |-> "fail", value |-> NoValue,
                             error |-> [status_code |-> 500,
                                        detail |-> "Failed to parse AI response as JSON",
                                        cause |-> "JSONDecodeError",
                                        diag |-> json_loads(CleanResponse(raw[r])).diag]]
            /\ \A i \in Terminals(r) : events[r][i].step = "error"
            /\ response[r].status \in {0, 500}
            /\ response[r].body = NoValue
            /\ dbops[r] = <<>>
            /\ \A d \in documents : d.id # r

C4_Witness ==
    \E r \in Reqs :
        /\ pc[r] = "done"
        /\ raw[r] = WrapJson(<<"{", "S">>)
        /\ outcome[r].error.diag = 3

\* C5: one analysis invokes the generation service at most twice, first in
\* structured-output mode; the plain invocation is made only after the
\* structured one failed, and when it fails too the analysis fails with the
\* upstream error.
C5_TwoStrikes ==
    \A r \in Reqs :
        /\ Len(calls[r]) <= 2
        /\ Len(calls[r]) >= 1 => calls[r][1].mode = "json_object"
        /\ Len(calls[r]) = 2 => (~calls[r][1].ok /\ calls[r][2].mode = "plain")
        /\ (Len(calls[r]) = 2 /\ ~calls[r][2].ok) =>
              outcome[r] = [status |-> "fail", value |-> NoValue,
                            error |-> [status_code |-> 500, detail |-> "AI analysis failed",
                                       cause |-> "APIError", diag |-> 0]]

C5_Witness ==
    \E r \in Reqs :
        /\ Len(calls[r]) = 2
        /\ ~calls[r][1].ok
        /\ ~calls[r][2].ok
        /\ outcome[r].status = "fail"

FellBack(r) ==
    /\ calls[r] = <<Call("json_object", FALSE), Call("plain", TRUE)>>
    /\ IsText(raw[r])
    /\ json_loads(CleanResponse(raw[r])).ok

\* C6: when the structured invocation fails and the plain one answers valid
\* JSON, the analysis returns the value decoded from that answer, and no
\* error of the first attempt reaches the caller: the stream ends in a
\* complete frame with that value, and the POST answer carries no upstream
\* error.
C6_FallbackSucceeds ==
    \A r \in Reqs :
        FellBack(r) =>
            /\ outcome[r] = [status |-> "ok",
                             value |-> json_loads(CleanResponse(raw[r])).value,
                             error |-> NoError]
            /\ \A i \in Terminals(r) :
                  events[r][i] = [step |-> "complete",
                                  result |-> json_loads(CleanResponse(raw[r])).value]
            /\ response[r].error.cause # "APIError"

C6_Witness ==
    \E r \in Streams :
        /\ FellBack(r)
        /\ pc[r] = "done"
        /\ events[r][8].step = "complete"

BothFailed(r) == calls[r] = <<Call("json_object", FALSE), Call("plain", FALSE)>>

\* C7: when both invocations fail, POST /api/analyze answers with the
\* upstream failure and makes no persistence call: no users.update_one, no
\* documents.insert_one, no stored record of the request.
C7_NoPersistenceOnUpstreamFailure ==
    \A r \in Analyzes :
        BothFailed(r) =>
            /\ pc[r] = "done"
            /\ response[r] = [status |-> 500, detail |-> "Document processing failed",
                              error |-> [status_code |-> 500,
                                         detail |-> "AI analysis failed",
                                         cause |-> "APIError", diag |-> 0],
                              body |-> NoValue, document_id |-> 0]
            /\ dbops[r] = <<>>
            /\ \A d \in documents : d.id # r

C7_Witness ==
    \E r \in Analyzes :
        /\ BothFailed(r)
        /\ pc[r] = "done"
        /\ document_count[user[r]] = 0

AllNormalized ==
    /\ cleaned.plain # NotRun
    /\ cleaned.json # NotRun
    /\ cleaned.bare # NotRun

SameResult(a, b) == a.status = b.status /\ a.value = b.value

\* C8 as stated: for ANY payload P, normalizing P inside a json fence or a
\* bare fence gives the same parsed result as normalizing P unwrapped.
C8_AnyPayload ==
    AllNormalized =>
        /\ SameResult(cleaned.json.result, cleaned.plain.result)
        /\ SameResult(cleaned.bare.result, cleaned.plain.result)

\* A payload that carries no fence marker of its own at either end and does
\* not begin with the letters of the language tag
FenceFree(p) ==
    /\ ~startswith(strip(p), Fence)
    /\ ~endswith(strip(p), Fence)
    /\ ~startswith(p, <<"j", "s", "o", "n">>)

\* C8 amended: for every payload P that neither begins nor ends (after
\* trimming) with a fence marker and does not begin with the letters json,
\* the cleanup of P in a json fence and of P in a bare fence both yield
\* exactly P trimmed, as does the cleanup of P unwrapped, so the three parse
\* to the same result.
C8_FenceFreePayload ==
    (AllNormalized /\ FenceFree(payload)) =>
        /\ cleaned.plain.text = strip(payload)
        /\ cleaned.json.text = strip(payload)
        /\ cleaned.bare.text = strip(payload)
        /\ cleaned.json.result = cleaned.plain.result
        /\ cleaned.bare.result = cleaned.plain.result

C8_Witness ==
    /\ AllNormalized
    /\ payload = <<WS, "{", "S", "}">>
    /\ cleaned.json.result.status = "ok"
    /\ cleaned.json.result.value.summary

\* C9: the rendered prompt is the template with the input text in its {text}
\* field when the text has at most 8000 characters, and with exactly its
\* first 8000 characters otherwise; rendering always succeeds.
C9_PromptEmbedsExcerpt ==
    prompt # Unrendered =>
        LET n == Len(doc_text)
            k == IF n <= MAX_TEXT THEN n ELSE MAX_TEXT
            h == Len(TemplateHead)
        IN  /\ Len(prompt) = h + k + Len(TemplateTail)
            /\ SubSeq(prompt, 1, h) = TemplateHead
            /\ \A i \in 1..k : prompt[h + i] = doc_text[i]
            /\ SubSeq(prompt, h + k + 1, Len(prompt)) = TemplateTail

C9_Witness ==
    /\ prompt # Unrendered
    /\ Len(doc_text) = MAX_TEXT + 2
    /\ doc_text[MAX_TEXT] = "a"
    /\ doc_text[MAX_TEXT + 1] = "b"
    /\ prompt[Len(TemplateHead) + MAX_TEXT] = "a"

\* C10: in a stream, the generation service is invoked, and the analysis has
\* a reply or an outcome, only when all seven synthetic events have been
\* emitted.
C10_AnalysisAfterProgress ==
    \A r \in Streams :
        (calls[r] # <<>> \/ raw[r] # NoReply \/ outcome[r] # NotAnalysed) =>
            /\ Len(events[r]) >= Len(SyntheticSteps)
            /\ \A i \in 1..Len(SyntheticSteps) : IsSynthetic(events[r][i], i)

C10_Witness ==
    \E r \in Streams :
        /\ Len(calls[r]) = 1
        /\ calls[r][1].ok
        /\ Len(events[r]) = 8

\* C11: a POST /api/analyze that answered with a failure left the stored state
\* as it found it: none of its calls on the database took effect and no
\* record carries its id.
C11_FailureLeavesStateUnchanged ==
    \A r \in Analyzes :
        (pc[r] = "done" /\ response[r].status = 500) =>
            /\ \A i \in 1..Len(dbops[r]) : ~dbops[r][i].ok
            /\ \A d \in documents : d.id # r

Quiescent == \A r \in Reqs : pc[r] \in {"idle", "done"}

Gets == {r \in Reqs : kind[r] = "get"}

Deletes == {r \in Reqs : kind[r] = "delete"}

\* C12: whenever no request is in progress, each user's document_count is the
\* number of stored records carrying that user_id.
C12_CountMatchesDocuments ==
    Quiescent =>
        \A u \in Users :
            document_count[u] = Cardinality({d \in documents : d.user_id = u})

\* C13: a get_document or delete_document whose query reached the database and
\* matched no record of the caller (the id is of no record, or of a record of
\* another user) is answered 404 "Document not found".
C13_NotFoundIs404 ==
    \A r \in Gets \cup Deletes :
        (/\ pc[r] = "done"
         /\ Len(dbops[r]) = 1
         /\ dbops[r][1].ok
         /\ ~dbops[r][1].matched) =>
            /\ response[r].status = 404
            /\ response[r].detail = "Document not found"

====
